---- MODULE Spec2Model ----
(***************************************************************************)
(* Model of the instadl service: src/api.py (urls-only application) and    *)
(* src/test.py (download application).  Python strings are sequences of    *)
(* one-character strings; every other Python value is a record tagged by   *)
(* its field k.  The instaloader library, the cookie jar of the standard   *)
(* library, the clock and the file system are the environment.             *)
(***************************************************************************)
EXTENDS Integers, Sequences, FiniteSets, TLC

VARIABLES
    now,          \* the wall clock, in ticks of 1/TicksPerSecond second
    cookieFile,   \* the file at cookies/cookies.txt
    fs,           \* the file system: directory name -> (file name -> writer)
    req,          \* per request: the handler's and the orchestrator's locals
    lfile,        \* the loader alone: the cookie file handed to it
    lout,         \* the loader alone: what it returned
    vurl,         \* the validator alone: the string handed to it
    vout          \* the validator alone: what it returned

vars == <<now, cookieFile, fs, req, lfile, lout, vurl, vout>>

(***************************************************************************)
(* Bounds of the model.                                                    *)
(***************************************************************************)
MaxTicks == 2        \* the clock advances at most this many ticks
MaxRecords == 3      \* records of a cookie file handed to the loader alone
MaxChildren == 3     \* children of a gallery post
MaxSuffix == 3       \* characters after the pattern's literal in a string
                     \* handed to the validator alone

(***************************************************************************)
(* Python values.                                                          *)
(***************************************************************************)
None == [k |-> "None"]
Bool(b) == [k |-> "bool", v |-> b]
Num(n) == [k |-> "num", v |-> n]
Str(s) == [k |-> "str", v |-> s]
Arr(a) == [k |-> "arr", v |-> a]
Dict(d) == [k |-> "dict", v |-> d]

Whitespace == {" ", "\n"}

RECURSIVE lstrip(_)
lstrip(s) == IF s # <<>> /\ Head(s) \in Whitespace THEN lstrip(Tail(s)) ELSE s

RECURSIVE rstrip(_)
rstrip(s) ==
    IF s # <<>> /\ s[Len(s)] \in Whitespace
    THEN rstrip(SubSeq(s, 1, Len(s) - 1))
    ELSE s

\* str.strip()
strip(s) == rstrip(lstrip(s))

\* str.startswith(prefix)
startswith(s, prefix) ==
    /\ Len(prefix) <= Len(s)
    /\ SubSeq(s, 1, Len(prefix)) = prefix

\* sub in s, for two strings
Contains(s, sub) ==
    \E i \in 1..(Len(s) - Len(sub) + 1) : SubSeq(s, i, i + Len(sub) - 1) = sub

(***************************************************************************)
(* validate_url: re.search(r'instagram\.com/p/([A-Za-z0-9-_]+)', url).     *)
(***************************************************************************)
Upper == {"A", "B", "C", "D", "E", "F", "G", "H", "I", "J", "K", "L", "M",
          "N", "O", "P", "Q", "R", "S", "T", "U", "V", "W", "X", "Y", "Z"}
Lower == {"a", "b", "c", "d", "e", "f", "g", "h", "i", "j", "k", "l", "m",
          "n", "o", "p", "q", "r", "s", "t", "u", "v", "w", "x", "y", "z"}
Digit == {"0", "1", "2", "3", "4", "5", "6", "7", "8", "9"}
\* the class [A-Za-z0-9-_]
IdChars == Upper \cup Lower \cup Digit \cup {"-", "_"}

\* the literal part of the pattern, instagram\.com/p/
Literal == <<"i", "n", "s", "t", "a", "g", "r", "a", "m", ".", "c", "o", "m",
             "/", "p", "/">>

\* the pattern with its dot left unescaped: any character matches there
MutMatchAt(url, i) ==
    /\ i + Len(Literal) <= Len(url)
    /\ \A k \in 1..Len(Literal) :
          k = 10 \/ url[i + k - 1] = Literal[k]
    /\ url[i + Len(Literal)] \in IdChars

\* the pattern matches with its first character at position i
MatchAt(url, i) ==
    /\ i + Len(Literal) <= Len(url)
    /\ SubSeq(url, i, i + Len(Literal) - 1) = Literal
    /\ url[i + Len(Literal)] \in IdChars

\* the greedy +: the last position of the run of class characters from j on
RECURSIVE RunEnd(_, _)
RunEnd(url, j) ==
    IF j < Len(url) /\ url[j + 1] \in IdChars THEN RunEnd(url, j + 1) ELSE j

validate_url(url) ==
    LET hits == {i \in 1..Len(url) : MatchAt(url, i)}
    IN  IF hits = {}
        THEN None
        ELSE LET i == CHOOSE h \in hits : \A g \in hits : h <= g
                 j == i + Len(Literal)
             IN  Str(SubSeq(url, j, RunEnd(url, j)))

(***************************************************************************)
(* load_cookies_from_file.  A cookie file is missing, unparsable, or a     *)
(* sequence of records [name, domain, value]; the value of a record is a   *)
(* string, or None for a line whose name field is empty.                   *)
(***************************************************************************)
FileMissing == [k |-> "missing"]
FileUnparsable == [k |-> "unparsable"]
File(records) == [k |-> "file", v |-> records]

Rec(n, d, v) == [name |-> n, domain |-> d, value |-> v]

InstagramDomain == ".instagram.com"
RequiredNames == {"sessionid", "csrftoken"}

\* MozillaCookieJar.load: the jar holds one cookie per (domain, name), the
\* last one of the file
RECURSIVE JarOf(_, _)
JarOf(records, jar) ==
    IF records = <<>>
    THEN jar
    ELSE LET c == Head(records)
             key == <<c.domain, c.name>>
         IN  JarOf(Tail(records),
                   [x \in DOMAIN jar \cup {key} |->
                       IF x = key THEN c.value ELSE jar[x]])

EmptyJar == [x \in {} |-> None]

\* the loop without its test of the cookie's domain
MutCookiesOf(jar) ==
    [n \in {m \in RequiredNames : \E key \in DOMAIN jar : key[2] = m} |->
        jar[CHOOSE key \in DOMAIN jar : key[2] = n]]

\* the loop of lines 37-39 over the jar
CookiesOf(jar) ==
    [n \in {m \in RequiredNames : <<InstagramDomain, m>> \in DOMAIN jar} |->
        jar[<<InstagramDomain, n>>]]

load_cookies_from_file(file) ==
    IF file.k # "file"
    THEN None                                   \* except Exception
    ELSE LET cookies == CookiesOf(JarOf(file.v, EmptyJar))
         IN  IF "sessionid" \in DOMAIN cookies /\ "csrftoken" \in DOMAIN cookies
             THEN Dict(cookies)
             ELSE None

(***************************************************************************)
(* The environment: request bodies, cookie files, posts, library failures. *)
(***************************************************************************)
EmptyDict == [x \in {} |-> None]

S_url == <<"u", "r", "l">>

\* post URLs sent by clients: the second identifier extends the first
UrlA == <<" ">> \o Literal \o <<"A", "/">>
UrlAB == Literal \o <<"A", "B">> \o <<"\n">>
UrlInvalid == <<"x", ".", "c", "o", "m">>
PostUrls == {UrlA, UrlAB}

\* what request.get_json() returns for the bodies that parse as JSON
Bodies ==
    {None, Num(0), Num(5), Bool(TRUE), Str(S_url), Str(<<"a">>),
     Arr(<<>>), Arr(<<Str(S_url)>>), Arr(<<Num(1)>>),
     Dict(EmptyDict), Dict("a" :> Num(1)),
     Dict("url" :> Num(5)), Dict("url" :> None), Dict("url" :> Arr(<<>>)),
     Dict("url" :> Dict(EmptyDict)),
     Dict("url" :> Str(<<>>)), Dict("url" :> Str(<<" ", "\n">>)),
     Dict("url" :> Str(UrlInvalid))}
    \cup {Dict("url" :> Str(u)) : u \in PostUrls}

Tok1 == Str(<<"s", "1">>)
Tok2 == Str(<<"c", "2">>)

\* the cookie files a request may find at cookies/cookies.txt
CookieFiles ==
    {FileMissing, FileUnparsable,
     File(<<Rec("sessionid", InstagramDomain, Tok1),
            Rec("csrftoken", InstagramDomain, Tok2)>>),
     File(<<Rec("sessionid", InstagramDomain, Tok1)>>),
     File(<<Rec("sessionid", "instagram.com", Tok1),
            Rec("csrftoken", InstagramDomain, Tok2)>>),
     File(<<Rec("sessionid", InstagramDomain, Str(<<>>)),
            Rec("csrftoken", InstagramDomain, Tok2)>>),
     File(<<Rec("csrftoken", InstagramDomain, None),
            Rec("sessionid", InstagramDomain, Tok1)>>)}

GoodCookieFile ==
    File(<<Rec("sessionid", InstagramDomain, Tok1),
           Rec("csrftoken", InstagramDomain, Tok2)>>)

\* the cookie files handed to the loader alone
RecordNames == {"sessionid", "csrftoken", "mid"}
RecordDomains == {InstagramDomain, "instagram.com"}
RecordValues == {None, Str(<<>>), Tok1}
Records ==
    {Rec(n, d, v) : n \in RecordNames, d \in RecordDomains, v \in RecordValues}

SeqsUpTo(S, n) == UNION {[1..m -> S] : m \in 0..n}

LoaderFiles ==
    {FileMissing, FileUnparsable}
    \cup {File(rs) : rs \in SeqsUpTo(Records, MaxRecords)}

\* media URLs of a post: index 0 is the post itself, i >= 1 its i-th child
Url(kind, i) == [k |-> "url", kind |-> kind, idx |-> i]

Node(video, i) ==
    [is_video |-> video,
     display_url |-> Url("display", i),
     video_url |-> IF video THEN Url("video", i) ELSE None]

PostOf(typename, video, kinds) ==
    [k |-> "post",
     typename |-> typename,
     is_video |-> video,
     url |-> Url("display", 0),
     video_url |-> IF video THEN Url("video", 0) ELSE None,
     nodes |-> [i \in 1..Len(kinds) |-> Node(kinds[i], i)]]

\* what Post.from_shortcode may resolve to
Posts ==
    {PostOf("GraphImage", FALSE, <<>>), PostOf("GraphVideo", TRUE, <<>>)}
    \cup {PostOf("GraphSidecar", v, ks) :
            v \in BOOLEAN,
            ks \in UNION {[1..n -> BOOLEAN] : n \in 1..MaxChildren}}

\* what the library may raise: three classes the code names, and any other
LibExceptions ==
    {"LoginRequiredException", "BadResponseException", "ConnectionException",
     "Exception"}

\* download_instagram_post's default max_retries
max_retries == 2

\* clock ticks per second: the timestamp has the resolution of one second
TicksPerSecond == 2

\* datetime.now().strftime("%Y%m%d_%H%M%S")
strftime(t) == t \div TicksPerSecond

\* the file download_post writes for a post: filename_pattern="{shortcode}"
Ext == <<".", "j", "p", "g">>
FileNameOf(shortcode) == shortcode \o Ext

\* os.path.join(save_dir, file)
join(dir, file) == [dir |-> dir, file |-> file]

(***************************************************************************)
(* Python's truth value, "url" in data, data["url"], on JSON values.       *)
(***************************************************************************)
Truthy(x) ==
    CASE x.k = "None" -> FALSE
      [] x.k = "bool" -> x.v
      [] x.k = "num" -> x.v # 0
      [] x.k = "str" -> x.v # <<>>
      [] x.k = "arr" -> x.v # <<>>
      [] x.k = "dict" -> DOMAIN x.v # {}

\* "url" in data raises TypeError on a number, a boolean or None
InRaises(data) == data.k \in {"num", "bool", "None"}

InUrl(data) ==
    CASE data.k = "dict" -> "url" \in DOMAIN data.v
      [] data.k = "arr" -> \E i \in 1..Len(data.v) : data.v[i] = Str(S_url)
      [] data.k = "str" -> Contains(data.v, S_url)
      [] OTHER -> FALSE

\* data["url"] raises TypeError on a list or a string
GetItemRaises(data) == data.k # "dict"

(***************************************************************************)
(* A request: the locals of the handler download_post and of the           *)
(* orchestrator it calls (get_instagram_post_urls in src/api.py,           *)
(* download_instagram_post in src/test.py).  calls counts the calls made,  *)
(* outcomes records how each library attempt ended and resolved the post   *)
(* the urls-only orchestrator resolved.                                    *)
(***************************************************************************)
\* the requests of a run: one in Spec, both in SpecConc
Requests == {1, 2}

NoCalls == [orchestrator |-> 0, from_shortcode |-> 0, download_post |-> 0,
            makedirs |-> 0]

NewRequest(app, data) ==
    [app |-> app, pc |-> "recv", data |-> data, url |-> None,
     save_dir |-> None, shortcode |-> None, cookies |-> None,
     session |-> EmptyDict, attempt |-> 0, result |-> None,
     response |-> None, http |-> 0, raised |-> None, calls |-> NoCalls,
     outcomes |-> <<>>, resolved |-> None]

\* result = {"status": "error", "message": "", "media_urls" / "files": []}
NewResult == [status |-> "error", message |-> "", payload |-> <<>>]

\* return jsonify(...), code
Replied(q, body, code) ==
    [q EXCEPT !.pc = "done", !.response = body, !.http = code]

\* an exception leaves the handler: the framework answers 500
Escaped(q, exception) ==
    [q EXCEPT !.pc = "done", !.raised = [k |-> "raised", type |-> exception],
              !.http = 500]

\* result["message"] = message; return result
Returned(q, message) ==
    [q EXCEPT !.pc = "respond",
              !.result = [NewResult EXCEPT !.message = message]]

InvalidRequest ==
    [status |-> "error", message |-> "Invalid request. Please provide a JSON payload with a 'url' field."]

EmptyUrl == [status |-> "error", message |-> "URL cannot be empty."]

(***************************************************************************)
(* download_post, up to the call of the orchestrator.                      *)
(***************************************************************************)
download_post(r) ==
    /\ r \in DOMAIN req
    /\ req[r].pc = "recv"
    /\ UNCHANGED <<now, cookieFile, fs, lfile, lout, vurl, vout>>
    /\ LET q == req[r]
           data == q.data
       IN  req' = [req EXCEPT ![r] =
             IF ~Truthy(data)
             THEN Replied(q, InvalidRequest, 400)
             ELSE IF InRaises(data)
             THEN Escaped(q, "TypeError")
             ELSE IF ~InUrl(data)
             THEN Replied(q, InvalidRequest, 400)
             ELSE IF GetItemRaises(data)
             THEN Escaped(q, "TypeError")
             ELSE IF data.v["url"].k # "str"
             THEN Escaped(q, "AttributeError")
             ELSE LET url == strip(data.v["url"].v)
                  IN  IF url = <<>>
                      THEN Replied(q, EmptyUrl, 400)
                      ELSE [q EXCEPT
                              !.pc = "validate",
                              !.url = Str(url),
                              !.save_dir =
                                  IF q.app = "test"
                                  THEN Num(strftime(now))
                                  ELSE None,
                              !.calls.orchestrator = @ + 1]]

(***************************************************************************)
(* The orchestrator before it calls the library.                           *)
(***************************************************************************)
ValidateUrl(r) ==
    /\ r \in DOMAIN req
    /\ req[r].pc = "validate"
    /\ UNCHANGED <<now, cookieFile, fs, lfile, lout, vurl, vout>>
    /\ LET q == req[r]
           shortcode == validate_url(q.url.v)
       IN  req' = [req EXCEPT ![r] =
             IF ~Truthy(shortcode)
             THEN Returned(q, "Invalid Instagram URL!")
             ELSE [q EXCEPT !.pc = "isfile", !.result = NewResult,
                            !.shortcode = shortcode]]

\* the orchestrator without its test that the cookie file exists
MutIsfile(file) == TRUE

\* os.path.isfile(cookies_path)
isfile(file) == file.k # "missing"

CheckCookiesFile(r) ==
    /\ r \in DOMAIN req
    /\ req[r].pc = "isfile"
    /\ UNCHANGED <<now, cookieFile, fs, lfile, lout, vurl, vout>>
    /\ req' = [req EXCEPT ![r] =
          IF ~isfile(cookieFile)
          THEN Returned(@, "Cookies file not found")
          ELSE [@ EXCEPT !.pc = "load"]]

LoadCookies(r) ==
    /\ r \in DOMAIN req
    /\ req[r].pc = "load"
    /\ UNCHANGED <<now, cookieFile, fs, lfile, lout, vurl, vout>>
    /\ LET cookies == load_cookies_from_file(cookieFile)
       IN  req' = [req EXCEPT ![r] =
             IF ~Truthy(cookies)
             THEN Returned(@, "Failed to load session from cookies.txt")
             ELSE [@ EXCEPT !.pc = "session", !.cookies = cookies]]

\* session.cookies.set(name, value, domain=...): a value of None sets nothing
CookiesSet(session, name, value) ==
    IF value = None
    THEN [n \in DOMAIN session \ {name} |-> session[n]]
    ELSE [n \in DOMAIN session \cup {name} |->
             IF n = name THEN value ELSE session[n]]

SetSession(r) ==
    /\ r \in DOMAIN req
    /\ req[r].pc = "session"
    /\ UNCHANGED <<now, cookieFile, fs, lfile, lout, vurl, vout>>
    /\ LET cookies == req[r].cookies.v
           s1 == CookiesSet(req[r].session, "sessionid", cookies["sessionid"])
           s2 == CookiesSet(s1, "csrftoken", cookies["csrftoken"])
       IN  req' = [req EXCEPT
                ![r].session = s2,
                ![r].pc = IF req[r].app = "test" THEN "exists" ELSE "resolve"]

(***************************************************************************)
(* The except clauses around the library calls.                            *)
(***************************************************************************)
\* the last handler returning the result without a message
MutOuterMessage(exception) ==
    IF exception = "LoginRequiredException"
    THEN "Login required!"
    ELSE IF exception = "BadResponseException"
    THEN "Instagram blocked the request (403 Forbidden)"
    ELSE ""

\* the handlers of the outer try
OuterMessage(exception) ==
    IF exception = "LoginRequiredException"
    THEN "Login required!"
    ELSE IF exception = "BadResponseException"
    THEN "Instagram blocked the request (403 Forbidden)"
    ELSE "Oops! Something went wrong"

\* the retry test off by one
MutShouldRetry(attempt) == attempt <= max_retries

\* if attempt < max_retries: continue
ShouldRetry(attempt) == attempt < max_retries

\* the retry loop retrying a blocked request too
MutRetried == {"ConnectionException", "BadResponseException"}

\* the exceptions the retry loop answers by another attempt
Retried == {"ConnectionException"}

\* the handlers inside the retry loop of download_instagram_post, then the
\* outer ones; the attempt's outcome is recorded
AttemptExcept(q, exception) ==
    LET p == [q EXCEPT !.outcomes = Append(@, exception)]
    IN  IF exception \in Retried
        THEN IF ShouldRetry(q.attempt)
             THEN [p EXCEPT !.pc = "from_shortcode", !.attempt = @ + 1]
             ELSE Returned(p, "Failed after retries")
        ELSE Returned(p, OuterMessage(exception))

(***************************************************************************)
(* get_instagram_post_urls: resolve the post and collect its media URLs.   *)
(***************************************************************************)
NodeUrl(node) == IF node.is_video THEN node.video_url ELSE node.display_url

MediaUrls(post) ==
    LET first == IF post.is_video THEN post.video_url ELSE post.url
        sidecar ==
            IF post.typename = "GraphSidecar"
            THEN [i \in 1..Len(post.nodes) |-> NodeUrl(post.nodes[i])]
            ELSE <<>>
    IN  <<first>> \o sidecar

Resolve(r) ==
    /\ r \in DOMAIN req
    /\ req[r].pc = "resolve"
    /\ UNCHANGED <<now, cookieFile, fs, lfile, lout, vurl, vout>>
    /\ LET q == [req[r] EXCEPT !.calls.from_shortcode = @ + 1]
       IN  \/ \E post \in Posts :
                req' = [req EXCEPT ![r] =
                    [q EXCEPT
                       !.pc = "respond",
                       !.resolved = post,
                       !.outcomes = Append(@, "ok"),
                       !.result =
                           [status |-> "success",
                            message |-> "Media URLs extracted successfully.",
                            payload |-> MediaUrls(post)]]]
           \/ \E exception \in LibExceptions :
                req' = [req EXCEPT ![r] =
                    Returned([q EXCEPT !.outcomes = Append(@, exception)],
                             OuterMessage(exception))]

(***************************************************************************)
(* download_instagram_post: the save directory and the retry loop.         *)
(***************************************************************************)
\* if not os.path.exists(save_dir)
CheckSaveDir(r) ==
    /\ r \in DOMAIN req
    /\ req[r].pc = "exists"
    /\ UNCHANGED <<now, cookieFile, fs, lfile, lout, vurl, vout>>
    /\ req' = [req EXCEPT ![r].pc =
                  IF req[r].save_dir.v \in DOMAIN fs
                  THEN "from_shortcode"
                  ELSE "makedirs"]

\* os.makedirs(save_dir): FileExistsError when another request made it since
MakeDirs(r) ==
    /\ r \in DOMAIN req
    /\ req[r].pc = "makedirs"
    /\ UNCHANGED <<now, cookieFile, lfile, lout, vurl, vout>>
    /\ LET dir == req[r].save_dir.v
       IN  IF dir \in DOMAIN fs
           THEN /\ req' = [req EXCEPT ![r] =
                              Returned(@, OuterMessage("FileExistsError"))]
                /\ UNCHANGED fs
           ELSE /\ fs' = [d \in DOMAIN fs \cup {dir} |->
                             IF d = dir THEN EmptyDict ELSE fs[d]]
                /\ req' = [req EXCEPT ![r].pc = "from_shortcode",
                                      ![r].calls.makedirs = @ + 1]

\* the library writes the post's file unless a file of that name exists
WriteFile(files, dir, name, writer) ==
    [files EXCEPT ![dir] =
        IF name \in DOMAIN @
        THEN @
        ELSE [f \in DOMAIN @ \cup {name} |->
                 IF f = name THEN writer ELSE @[f]]]

\* One pass of the try block up to the download:
\*     post = instaloader.Post.from_shortcode(loader.context, shortcode)
\*     loader.download_post(post, target=save_dir)
\* Resolving the post touches nothing the requests share, so the two calls
\* are one step; the download may fail before or after it has written.
Attempt(r) ==
    /\ r \in DOMAIN req
    /\ req[r].pc = "from_shortcode"
    /\ UNCHANGED <<now, cookieFile, lfile, lout, vurl, vout>>
    /\ LET q == [req[r] EXCEPT !.calls.from_shortcode = @ + 1]
           d == [q EXCEPT !.calls.download_post = @ + 1]
           written == WriteFile(fs, q.save_dir.v, FileNameOf(q.shortcode.v), r)
       IN  \/ \E exception \in LibExceptions :
                /\ fs' = fs
                /\ req' = [req EXCEPT ![r] = AttemptExcept(q, exception)]
           \/ \E exception \in LibExceptions :
                /\ fs' \in {fs, written}
                /\ req' = [req EXCEPT ![r] = AttemptExcept(d, exception)]
           \/ /\ fs' = written
              /\ req' = [req EXCEPT ![r] = [d EXCEPT !.pc = "listdir"]]

\* the orders in which os.listdir may give the names
Orders(names) ==
    {o \in [1..Cardinality(names) -> names] :
        \A i, j \in DOMAIN o : i # j => o[i] # o[j]}

\* for file in os.listdir(save_dir): if file.startswith(shortcode): ...
ListDir(r) ==
    /\ r \in DOMAIN req
    /\ req[r].pc = "listdir"
    /\ UNCHANGED <<now, cookieFile, fs, lfile, lout, vurl, vout>>
    /\ LET q == req[r]
           dir == q.save_dir.v
           names == {f \in DOMAIN fs[dir] : startswith(f, q.shortcode.v)}
       IN  \E o \in Orders(names) :
              req' = [req EXCEPT ![r] =
                  [q EXCEPT
                     !.pc = "respond",
                     !.outcomes = Append(@, "ok"),
                     !.result =
                         [status |-> "success",
                          message |-> "Download complete!",
                          payload |-> [i \in DOMAIN o |-> join(dir, o[i])]]]]

(***************************************************************************)
(* download_post, after the orchestrator has returned.                     *)
(***************************************************************************)
StatusCode(result) == IF result.status = "success" THEN 200 ELSE 400

Respond(r) ==
    /\ r \in DOMAIN req
    /\ req[r].pc = "respond"
    /\ UNCHANGED <<now, cookieFile, fs, lfile, lout, vurl, vout>>
    /\ req' = [req EXCEPT ![r] =
                  Replied(@, req[r].result, StatusCode(req[r].result))]

\* time passes
Tick ==
    /\ now < MaxTicks
    /\ now' = now + 1
    /\ UNCHANGED <<cookieFile, fs, req, lfile, lout, vurl, vout>>

(***************************************************************************)
(* One request to either application, with any body, cookie file and       *)
(* state of the download directory.                                        *)
(***************************************************************************)
Pending == [k |-> "pending"]

NoFiles == [d \in {} |-> EmptyDict]

\* the directory of second 0 as an earlier request (writer 0) has left it
EarlierFiles == (strftime(0) :> (FileNameOf(<<"A", "B">>) :> 0))

Init ==
    /\ now = 0
    /\ cookieFile \in CookieFiles
    /\ fs \in {NoFiles, EarlierFiles}
    /\ req \in [{1} -> {NewRequest(a, d) : a \in {"api", "test"}, d \in Bodies}]
    /\ lfile = FileMissing
    /\ lout = None
    /\ vurl = <<>>
    /\ vout = None

Step(r) ==
    \/ download_post(r)
    \/ ValidateUrl(r)
    \/ CheckCookiesFile(r)
    \/ LoadCookies(r)
    \/ SetSession(r)
    \/ Resolve(r)
    \/ CheckSaveDir(r)
    \/ MakeDirs(r)
    \/ Attempt(r)
    \/ ListDir(r)
    \/ Respond(r)

Next == Tick \/ \E r \in Requests : Step(r)

Spec == Init /\ [][Next]_vars

(***************************************************************************)
(* Two requests to the download application at the same time.              *)
(***************************************************************************)
InitConc ==
    /\ now = 0
    /\ cookieFile = GoodCookieFile
    /\ fs = NoFiles
    /\ req \in [{1, 2} ->
                 {NewRequest("test", Dict("url" :> Str(u))) : u \in PostUrls}]
    /\ lfile = FileMissing
    /\ lout = None
    /\ vurl = <<>>
    /\ vout = None

StepConc(r) ==
    \/ download_post(r)
    \/ ValidateUrl(r)
    \/ CheckCookiesFile(r)
    \/ LoadCookies(r)
    \/ SetSession(r)
    \/ CheckSaveDir(r)
    \/ MakeDirs(r)
    \/ Attempt(r)
    \/ ListDir(r)
    \/ Respond(r)

NextConc == Tick \/ \E r \in Requests : StepConc(r)

SpecConc == InitConc /\ [][NextConc]_vars

(***************************************************************************)
(* The loader alone, on any cookie file of at most MaxRecords records.     *)
(***************************************************************************)
InitLoader ==
    /\ now = 0
    /\ cookieFile = FileMissing
    /\ fs = NoFiles
    /\ req = [r \in {} |-> None]
    /\ lfile \in LoaderFiles
    /\ lout = Pending
    /\ vurl = <<>>
    /\ vout = None

LoaderCall ==
    /\ lout = Pending
    /\ lout' = load_cookies_from_file(lfile)
    /\ UNCHANGED <<now, cookieFile, fs, req, lfile, vurl, vout>>

NextLoader == LoaderCall

SpecLoader == InitLoader /\ [][NextLoader]_vars

(***************************************************************************)
(* The validator alone, on strings built around the pattern's literal.     *)
(***************************************************************************)
\* what may precede the literal: protocol and host prefix
UrlPrefixes ==
    {<<>>, <<"/">>,
     <<"h", "t", "t", "p", "s", ":", "/", "/", "w", "w", "w", ".">>}

\* the literal, and near misses of it
UrlMiddles ==
    {Literal,
     <<"i", "n", "s", "t", "a", "g", "r", "a", "m", "x", "c", "o", "m",
       "/", "p", "/">>,
     <<"i", "n", "s", "t", "a", "g", "r", "a", "m", ".", "c", "o", "m",
       "/", "p">>,
     <<>>}

\* what may follow: identifier characters, path and query text
UrlSuffixChars == {"A", "9", "-", "_", "/", "?"}

\* a second occurrence of the pattern later in the string, or none
UrlTails == {<<>>, <<"/">> \o Literal \o <<"Z", "z">>}

ValidatorInputs ==
    {pre \o mid \o suf \o tail :
        pre \in UrlPrefixes, mid \in UrlMiddles,
        suf \in SeqsUpTo(UrlSuffixChars, MaxSuffix), tail \in UrlTails}

InitValidator ==
    /\ now = 0
    /\ cookieFile = FileMissing
    /\ fs = NoFiles
    /\ req = [r \in {} |-> None]
    /\ lfile = FileMissing
    /\ lout = None
    /\ vurl \in ValidatorInputs
    /\ vout = Pending

ValidatorCall ==
    /\ vout = Pending
    /\ vout' = validate_url(vurl)
    /\ UNCHANGED <<now, cookieFile, fs, req, lfile, lout, vurl>>

NextValidator == ValidatorCall

SpecValidator == InitValidator /\ [][NextValidator]_vars

(***************************************************************************)
(* The claims.                                                             *)
(***************************************************************************)
\* the orchestrator was called for request r and has returned
OrchestratorReturned(r) ==
    /\ req[r].calls.orchestrator > 0
    /\ req[r].pc \in {"respond", "done"}

Last(s) == s[Len(s)]

\* C1: in urls-only mode a successfully resolved post yields exactly one URL
\* per media item: one URL for a single-media post (its video URL if it is
\* a video, else its display URL), and for a gallery of N children N URLs,
\* the i-th being the i-th child's video URL if that child is a video and
\* its display URL otherwise.
C1_OneUrlPerMediaItem ==
    \A r \in DOMAIN req :
        (/\ req[r].app = "api"
         /\ OrchestratorReturned(r)
         /\ req[r].result.status = "success")
        => LET post == req[r].resolved
               urls == req[r].result.payload
           IN  IF post.typename = "GraphSidecar"
               THEN /\ Len(urls) = Len(post.nodes)
                    /\ \A i \in 1..Len(post.nodes) :
                          urls[i] = IF post.nodes[i].is_video
                                    THEN Url("video", i)
                                    ELSE Url("display", i)
               ELSE urls = <<IF post.is_video
                              THEN Url("video", 0)
                              ELSE Url("display", 0)>>

\* C2: for every body that parses as JSON the handler finishes with HTTP 200
\* exactly when the orchestrator was called and returned success, with HTTP
\* 400 otherwise, and no exception leaves the handler.
C2_Only200Or400 ==
    \A r \in DOMAIN req :
        req[r].pc = "done"
        => /\ req[r].raised = None
           /\ req[r].http \in {200, 400}
           /\ req[r].http = 200
                <=> (/\ req[r].calls.orchestrator > 0
                     /\ req[r].result.status = "success")

\* C3: in download mode the library attempt is made at most 3 times; a
\* connectivity failure followed by a success gives success after exactly 2
\* attempts; connectivity failures on all 3 attempts give an error whose
\* message reports the failure after retries, with no 4th attempt.
C3_AtMostThreeAttempts ==
    \A r \in DOMAIN req :
        req[r].app = "test"
        => /\ req[r].calls.from_shortcode <= 3
           /\ (/\ OrchestratorReturned(r)
               /\ req[r].outcomes = <<"ConnectionException", "ok">>)
              => /\ req[r].result.status = "success"
                 /\ req[r].calls.from_shortcode = 2
           /\ (/\ OrchestratorReturned(r)
               /\ req[r].outcomes = <<"ConnectionException",
                                      "ConnectionException",
                                      "ConnectionException">>)
              => /\ req[r].result.status = "error"
                 /\ req[r].result.message = "Failed after retries"
                 /\ req[r].calls.from_shortcode = 3

C3_Witness ==
    \E r \in DOMAIN req :
        /\ req[r].app = "test"
        /\ req[r].pc = "done"
        /\ req[r].outcomes = <<"ConnectionException", "ConnectionException",
                               "ConnectionException">>
        /\ req[r].http = 400

C5_ResultContract ==
    \A r \in DOMAIN req :
        req[r].calls.orchestrator > 0
        => /\ req[r].raised = None
           /\ OrchestratorReturned(r)
              => LET result == req[r].result
                 IN  /\ result.status \in {"success", "error"}
                     /\ result.status = "error"
                        => /\ result.payload = <<>>
                           /\ result.message # ""
                     /\ result.payload # <<>> => result.status = "success"
                     /\ (req[r].outcomes # <<>> /\ Last(req[r].outcomes) # "ok")
                        => result.status = "error"

C5_Witness ==
    \E r \in DOMAIN req :
        /\ req[r].pc = "done"
        /\ req[r].calls.orchestrator > 0
        /\ req[r].outcomes # <<>>
        /\ Last(req[r].outcomes) = "Exception"
        /\ req[r].response.status = "error"

\* C6: the orchestrator checks the URL, then the existence of the cookie
\* file, then the credentials, and only then calls the library: when one of
\* the three fails the result is the error of the first that fails, no call
\* of Post.from_shortcode or download_post has been made, and in download
\* mode no directory has been created.
C6_LocalChecksBeforeLibrary ==
    \A r \in DOMAIN req :
        req[r].calls.orchestrator > 0
        => LET q == req[r]
               badUrl == validate_url(q.url.v) = None
               noFile == cookieFile.k = "missing"
               noCookies == load_cookies_from_file(cookieFile) = None
               expected ==
                   IF badUrl THEN "Invalid Instagram URL!"
                   ELSE IF noFile THEN "Cookies file not found"
                   ELSE "Failed to load session from cookies.txt"
           IN  (badUrl \/ noFile \/ noCookies)
               => /\ q.calls.from_shortcode = 0
                  /\ q.calls.download_post = 0
                  /\ q.calls.makedirs = 0
                  /\ fs \in {NoFiles, EarlierFiles}
                  /\ OrchestratorReturned(r)
                     => /\ q.result.status = "error"
                        /\ q.result.message = expected

C6_Witness ==
    \E r \in DOMAIN req :
        /\ req[r].app = "test"
        /\ req[r].pc = "done"
        /\ req[r].calls.orchestrator > 0
        /\ validate_url(req[r].url.v) # None
        /\ cookieFile.k = "missing"
        /\ req[r].response.message = "Cookies file not found"

\* C7: for every body in which the url field is missing, or is a string that
\* is empty after trimming whitespace, the response is HTTP 400 with status
\* error and a fixed message, and the orchestrator is never called.
C7_MissingOrEmptyUrlRejected ==
    \A r \in DOMAIN req :
        LET data == req[r].data
            missing == ~(data.k = "dict" /\ "url" \in DOMAIN data.v)
            blank == /\ ~missing
                     /\ data.v["url"].k = "str"
                     /\ \A i \in DOMAIN data.v["url"].v :
                           data.v["url"].v[i] \in Whitespace
        IN  (req[r].pc = "done" /\ (missing \/ blank))
            => /\ req[r].http = 400
               /\ req[r].calls.orchestrator = 0
               /\ req[r].response.status = "error"
               /\ req[r].response = IF missing THEN InvalidRequest ELSE EmptyUrl

\* C8: every credential set the loader reports as present, and the
\* orchestrator then attaches to the session, has a session token and a
\* CSRF token that are both present and non-empty; a file in which either
\* has an empty or missing value yields the missing/invalid cookies error.
C8_CredentialsNonEmpty ==
    \A r \in DOMAIN req :
        req[r].cookies # None
        => \A n \in {"sessionid", "csrftoken"} :
              /\ n \in DOMAIN req[r].cookies.v
              /\ req[r].cookies.v[n].k = "str"
              /\ req[r].cookies.v[n].v # <<>>
              /\ req[r].pc \notin {"load", "session"}
                 => /\ n \in DOMAIN req[r].session
                    /\ req[r].session[n] = req[r].cookies.v[n]

\* C9: any two requests handled in download mode, also when they overlap or
\* arrive within the same second, have distinct target directories, and the
\* files list returned for one never contains a file the other has written.
C9_DistinctDirectories ==
    \A r, s \in DOMAIN req :
        (/\ r # s
         /\ req[r].app = "test"
         /\ req[s].app = "test"
         /\ req[r].save_dir # None
         /\ req[s].save_dir # None)
        => /\ req[r].save_dir # req[s].save_dir
           /\ (OrchestratorReturned(r) /\ req[r].result.status = "success")
              => \A i \in DOMAIN req[r].result.payload :
                    LET path == req[r].result.payload[i]
                    IN  fs[path.dir][path.file] # s

\* C10: the loader returns a credential set exactly when a sessionid record
\* and a csrftoken record both exist with domain exactly .instagram.com,
\* and then it holds exactly those two values; records of any other domain
\* are ignored; a file that cannot be read or parsed yields absent.
C10_LoaderExact ==
    lout # Pending
    => LET at(n) == {i \in DOMAIN lfile.v :
                        /\ lfile.v[i].name = n
                        /\ lfile.v[i].domain = ".instagram.com"}
           latest(n) == CHOOSE i \in at(n) : \A j \in at(n) : j <= i
       IN  /\ lfile.k # "file" => lout = None
           /\ lfile.k = "file"
              => /\ lout # None <=> (at("sessionid") # {} /\ at("csrftoken") # {})
                 /\ lout # None
                    => /\ lout.k = "dict"
                       /\ DOMAIN lout.v = {"sessionid", "csrftoken"}
                       /\ \A n \in DOMAIN lout.v :
                             lout.v[n] = lfile.v[latest(n)].value

C10_Witness ==
    /\ lout # Pending
    /\ lout # None
    /\ \E i \in DOMAIN lfile.v :
          /\ lfile.v[i].name \in {"sessionid", "csrftoken"}
          /\ lfile.v[i].domain # ".instagram.com"
          /\ lfile.v[i].value # lout.v[lfile.v[i].name]

\* C11: validate_url returns an identifier exactly when the string contains
\* instagram.com/p/ followed by at least one character of [A-Za-z0-9-_];
\* the identifier is exactly the run of such characters that follows the
\* first such occurrence (non-empty, whatever precedes the literal and
\* whatever follows the run), and every other string yields None.
C11_ValidatorExact ==
    vout # Pending
    => LET lit == <<"i", "n", "s", "t", "a", "g", "r", "a", "m", ".", "c",
                    "o", "m", "/", "p", "/">>
           class == Upper \cup Lower \cup Digit \cup {"-", "_"}
           occ == {i \in 1..Len(vurl) :
                      /\ i + 16 <= Len(vurl)
                      /\ \A k \in 1..16 : vurl[i + k - 1] = lit[k]
                      /\ vurl[i + 16] \in class}
       IN  /\ vout # None <=> occ # {}
           /\ vout # None
              => /\ vout.k = "str"
                 /\ vout.v # <<>>
                 /\ \A k \in DOMAIN vout.v : vout.v[k] \in class
                 /\ \E i \in occ :
                       LET first == i + 16
                           last == i + 15 + Len(vout.v)
                       IN  /\ \A g \in occ : i <= g
                           /\ last <= Len(vurl)
                           /\ \A k \in DOMAIN vout.v :
                                 vout.v[k] = vurl[first + k - 1]
                           /\ last < Len(vurl) => vurl[last + 1] \notin class

C11_Witness ==
    /\ vout # Pending
    /\ vout # None
    /\ Len(vout.v) >= 2
    /\ vurl[1] = "h"
    /\ \E i \in DOMAIN vurl : vurl[i] = "?"

====
